---- MODULE Spec2Model ----
(***************************************************************************)
(* Model of the Apeaksoft watermark-remover proxy: the request router      *)
(* (main.py: erase_image, get_erase_status), the upstream gateway          *)
(* (core.py: the *_safe call wrappers and the shared HTTP client) and the  *)
(* call journal (database.py: insert_api_call, update_result_url).         *)
(*                                                                         *)
(* Six specifications share the variables:                                 *)
(*   Spec         the router handling requests one after another, each     *)
(*                handler cut at its awaits;                               *)
(*   GatewaySpec  the gateway's safe calls invoked directly with arbitrary *)
(*                arguments;                                               *)
(*   JournalSpec  insert_api_call / update_result_url invoked directly;    *)
(*   SynthSpec    _build_headers, as each gateway operation calls it, and  *)
(*                generate_e_id, over a set of user agents and             *)
(*                fingerprints;                                            *)
(*   UploadSpec   the handler's step from the upload's return to the       *)
(*                token, over every shape of the upload body;              *)
(*   ClientSpec   gateway operations holding the shared HTTP client while  *)
(*                close_http_client runs, cut at its await.                *)
(***************************************************************************)
EXTENDS Integers, Sequences, FiniteSets, TLC

-----------------------------------------------------------------------------
(* Bounds of the model *)

MaxRequests == 2
MaxClients == 2
MaxJournalCalls == 4
MaxInFlight == 3

-----------------------------------------------------------------------------
(* Values *)

\* Python's None, also what dict.get returns for a key that is absent.
PyNone == "<None>"

\* Python truthiness of an optional string: None and "" are falsy.
Truthy(v) == v # PyNone /\ v # ""

\* a or b or c: the first truthy operand, else the last one.
Or3(a, b, c) == IF Truthy(a) THEN a ELSE IF Truthy(b) THEN b ELSE c

Tokens == {"t1", "t2"}
Urls == {"u1", "u2"}
VendorMessage == "quota exceeded"

\* MAX_FILE_SIZE = 50 * 1024 * 1024
MAX_FILE_SIZE == 50 * 1024 * 1024
ALLOWED_IMAGE_TYPES == {"image/jpeg", "image/png", "image/jpg", "image/webp"}

\* What a gateway call hands back: None, or the parsed JSON body.  A body is
\* a record of the fields the router reads; kind tells None, the empty dict,
\* a non-empty dict and a JSON value that is no dict (a list, a string).
Body(kind, status, message, token, data_token, result_token, url, data_url, result_url) ==
    [kind |-> kind, status |-> status, message |-> message,
     token |-> token, data_token |-> data_token, result_token |-> result_token,
     url |-> url, data_url |-> data_url, result_url |-> result_url]

NoneBody == Body("none", PyNone, PyNone, PyNone, PyNone, PyNone, PyNone, PyNone, PyNone)
EmptyBody == Body("empty", PyNone, PyNone, PyNone, PyNone, PyNone, PyNone, PyNone, PyNone)
NonDictBody == Body("nondict", PyNone, PyNone, PyNone, PyNone, PyNone, PyNone, PyNone, PyNone)

\* Vendor answers to removeWM/upload: a refusal with and without a message
\* (one of them carrying a token all the same), and a "200" for each place a
\* token can sit in, for an empty token and for no token at all.
UploadBodies ==
    { Body("json", "403", VendorMessage, "t1", PyNone, PyNone, PyNone, PyNone, PyNone),
      Body("json", "403", PyNone, PyNone, PyNone, PyNone, PyNone, PyNone, PyNone),
      Body("json", "200", PyNone, "t1", PyNone, PyNone, PyNone, PyNone, PyNone),
      Body("json", "200", PyNone, "", "t2", PyNone, PyNone, PyNone, PyNone),
      Body("json", "200", PyNone, PyNone, PyNone, "t2", PyNone, PyNone, PyNone),
      Body("json", "200", PyNone, "", PyNone, PyNone, PyNone, PyNone, PyNone),
      Body("json", "200", VendorMessage, PyNone, PyNone, PyNone, PyNone, PyNone, PyNone),
      EmptyBody, NonDictBody }

\* Vendor answers to removeWM/WM and removeWM/status, likewise for url.
StatusBodies ==
    { Body("json", "500", VendorMessage, PyNone, PyNone, PyNone, "u2", PyNone, PyNone),
      Body("json", "500", PyNone, PyNone, PyNone, PyNone, PyNone, PyNone, PyNone),
      Body("json", "200", PyNone, PyNone, PyNone, PyNone, "u1", PyNone, PyNone),
      Body("json", "200", PyNone, PyNone, PyNone, PyNone, "", "u2", PyNone),
      Body("json", "200", PyNone, PyNone, PyNone, PyNone, PyNone, PyNone, "u2"),
      Body("json", "200", VendorMessage, PyNone, PyNone, PyNone, "", PyNone, PyNone),
      EmptyBody, NonDictBody }

\* Vendor answers to the advisory calls; the benefit body carries the limits
\* _validate_against_benefits reads (PyNone: no such benefit).
AdvisoryBody(kind, in_size_limit, in_edge_threshold) ==
    [kind |-> kind, in_size_limit |-> in_size_limit, in_edge_threshold |-> in_edge_threshold]

NoneAdvisory == AdvisoryBody("none", 0, 0)
BenefitBodies ==
    { AdvisoryBody("json", l, e) : l \in {0, 5}, e \in {0, 6} }
    \cup { AdvisoryBody("empty", 0, 0), AdvisoryBody("malformed", 0, 0) }
TrialBodies == { AdvisoryBody("json", 0, 0) }

\* How the HTTP exchange of a call ends: a JSON body, a transport error
\* (httpx.RequestError), a non-2xx answer (raise_for_status raising
\* httpx.HTTPStatusError) or a body that is no JSON (response.json raising).
Outcomes == {"ok", "transport_error", "http_status_error", "json_error"}

\* The ways a call can end given the bodies the vendor may send: <<outcome,
\* body>>, the body read only when the outcome is "ok".
Exchanges(bodies, nobody) ==
    { <<"ok", b>> : b \in bodies } \cup { <<o, nobody>> : o \in Outcomes \ {"ok"} }

-----------------------------------------------------------------------------
(* State *)

VARIABLES
    http_client,    \* core._http_client: 0 for None, else the client's number
    closed,         \* the clients whose is_closed is True
    nclients,       \* how many clients were created so far
    closing,        \* the client a suspended close_http_client is closing, or 0
    last,           \* the gateway call made last: its arguments and what it gave
    journal,        \* the api_calls table: the rows in insertion order
    now,            \* the clock CURRENT_TIMESTAMP reads: one tick per journal write
    jlast,          \* JournalSpec: the journal call made last
    nreq,           \* how many requests the router has accepted
    handler,        \* the handler running: "erase", "status" or "none"
    pc,             \* where the handler is: the await it is about to run
    calls,          \* the gateway calls this request has made, in order
    journal0,       \* the journal as it was when this request came in
    image,          \* erase_image: file_size_bytes, width, height of img
    current_eid,    \* erase_image: current_eid
    payload_token,  \* get_erase_status: payload.token
    upstream_resp,  \* both handlers: upstream_resp
    token,          \* erase_image: token
    wm_resp,        \* erase_image: wm_resp
    result_url,     \* both handlers: result_url
    db_raised,      \* whether the handler's journal call raised
    response,       \* the response sent to the client, once there is one
    built,          \* SynthSpec: the headers _build_headers built last, for which call
    derived,        \* SynthSpec: the last two generate_e_id calls
    extracted,      \* UploadSpec: the upload body handled last and what came of it
    held            \* ClientSpec: the client each in-flight gateway call holds, or 0

clientVars == <<http_client, closed, nclients, closing>>
journalVars == <<journal, now, jlast>>
requestVars == <<nreq, handler, pc, calls, journal0, image, current_eid,
                 payload_token, upstream_resp, token, wm_resp, result_url,
                 db_raised, response>>
sideVars == <<built, derived, extracted, held>>
vars == <<http_client, closed, nclients, closing, last, journal, now, jlast,
          nreq, handler, pc, calls, journal0, image, current_eid,
          payload_token, upstream_resp, token, wm_resp, result_url,
          db_raised, response, built, derived, extracted, held>>

-----------------------------------------------------------------------------
(* core.py: the shared HTTP client *)

\* get_http_client: a new client when the shared one is None or closed.
GetHttpClientOnlyWhenNone(hc, cl, n) ==
    IF hc = 0
    THEN [http_client |-> n + 1, nclients |-> n + 1]
    ELSE [http_client |-> hc, nclients |-> n]

GetHttpClient(hc, cl, n) ==
    IF hc = 0 \/ hc \in cl
    THEN [http_client |-> n + 1, nclients |-> n + 1]
    ELSE [http_client |-> hc, nclients |-> n]

\* Whether get_http_client would have to create a client.
NeedsNewClient == http_client = 0 \/ http_client \in closed

\* A gateway call `c` as it was made in this state: with the client that
\* get_http_client handed it, if it asked for one.
Made(c) ==
    [c EXCEPT !.client = IF c.acquired
                         THEN GetHttpClient(http_client, closed, nclients).http_client
                         ELSE 0]

\* The effect on the client variables of a gateway call `c`.
Acquire(c) ==
    IF c.acquired
    THEN LET g == GetHttpClient(http_client, closed, nclients)
         IN  /\ http_client' = g.http_client
             /\ nclients' = g.nclients
             /\ UNCHANGED <<closed, closing>>
    ELSE UNCHANGED clientVars

-----------------------------------------------------------------------------
(* core.py: the synthesized browser identity and the request headers *)

\* A user-agent string is the sequence of its product and comment tokens.
\* Needles(t) are the substrings the code looks for that occur in t.lower().
Needles(t) ==
    CASE t = "Windows NT 10.0" -> {"windows"}
      [] t = "Windows Phone 10.0" -> {"windows"}
      [] t = "Macintosh" -> {"macintosh"}
      [] t = "Intel Mac OS X 10_15_7" -> {"mac os x"}
      [] t = "like Mac OS X" -> {"mac os x"}
      [] t = "Linux x86_64" -> {"linux"}
      [] t = "Linux" -> {"linux"}
      [] t = "Android 13" -> {"android"}
      [] t = "Mobile" -> {"mobile"}
      [] t = "Chrome/143.0.0.0" -> {"chrome"}
      [] t = "Chrome/120.0.0.0" -> {"chrome"}
      [] t = "Chromium/119.0.0.0" -> {"chromium"}
      [] t = "Edg/143.0.0.0" -> {"edg"}
      [] t = "EdgA/120.0.0.0" -> {"edg"}
      [] OTHER -> {}

\* needle in ua.lower()
Contains(ua, needle) == \E i \in DOMAIN ua : needle \in Needles(ua[i])

\* The digits a match of (?:Edg|Chrome|Chromium)/(\d+) captures in token t,
\* PyNone when the pattern does not match in t ("EdgA/" has no "Edg/").
MajorIn(t) ==
    CASE t = "Chrome/143.0.0.0" -> "143"
      [] t = "Chrome/120.0.0.0" -> "120"
      [] t = "Chromium/119.0.0.0" -> "119"
      [] t = "Edg/143.0.0.0" -> "143"
      [] OTHER -> PyNone

FALLBACK_USER_AGENT ==
    <<"Mozilla/5.0", "X11", "Linux x86_64", "AppleWebKit/537.36",
      "Chrome/143.0.0.0", "Safari/537.36", "Edg/143.0.0.0">>

\* What ua_provider.random may give: desktop and mobile Chrome and Edge, an
\* iPhone, a Windows Phone that also names Android, ChromeOS, and an empty
\* string.
UserAgents ==
    { FALLBACK_USER_AGENT,
      <<"Mozilla/5.0", "Windows NT 10.0", "Chrome/120.0.0.0", "Safari/537.36">>,
      <<"Mozilla/5.0", "Macintosh", "Intel Mac OS X 10_15_7", "Chrome/120.0.0.0">>,
      <<"Mozilla/5.0", "Linux", "Android 13", "Chrome/120.0.0.0", "Mobile",
        "EdgA/120.0.0.0">>,
      <<"Mozilla/5.0", "Linux", "Android 13", "Chromium/119.0.0.0", "Safari/537.36">>,
      <<"Mozilla/5.0", "iPhone", "like Mac OS X", "CriOS/120.0", "Mobile">>,
      <<"Mozilla/5.0", "Windows Phone 10.0", "Android 13", "Mobile">>,
      <<"Mozilla/5.0", "X11", "CrOS x86_64", "Safari/537.36">>,
      <<>> }

\* _get_user_agent: ua_provider.random, or the fallback when that raises.
GetUserAgent(random, raised) == IF raised THEN FALLBACK_USER_AGENT ELSE random

\* _extract_major_version: the first match in the string, else "99".
ExtractMajorVersion(ua) ==
    LET hits == { i \in DOMAIN ua : MajorIn(ua[i]) # PyNone }
    IN  IF hits = {} THEN "99"
        ELSE MajorIn(ua[CHOOSE i \in hits : \A k \in hits : i <= k])

\* _build_sec_ch_ua: the brand list as <<brand, version>> pairs.
BuildSecChUa(ua) ==
    LET major == ExtractMajorVersion(ua)
    IN  IF Contains(ua, "edg")
        THEN <<<<"Microsoft Edge", major>>, <<"Chromium", major>>, <<"Not A(Brand", "99">>>>
        ELSE IF Contains(ua, "chrome") \/ Contains(ua, "chromium")
        THEN <<<<"Google Chrome", major>>, <<"Chromium", major>>, <<"Not A(Brand", "99">>>>
        ELSE <<<<"Chromium", major>>, <<"Not A(Brand", "99">>>>

\* _detect_mobile_flag
DetectMobileFlag(ua) == IF Contains(ua, "mobile") THEN "?1" ELSE "?0"

\* _detect_platform_token: the value carries its double quotes.
DetectPlatformTokenLinuxFirst(ua) ==
    IF Contains(ua, "windows") THEN "\"Windows\""
    ELSE IF Contains(ua, "mac os x") \/ Contains(ua, "macintosh") THEN "\"macOS\""
    ELSE IF Contains(ua, "linux") THEN "\"Linux\""
    ELSE IF Contains(ua, "android") THEN "\"Android\""
    ELSE "\"Unknown\""

DetectPlatformToken(ua) ==
    IF Contains(ua, "windows") THEN "\"Windows\""
    ELSE IF Contains(ua, "mac os x") \/ Contains(ua, "macintosh") THEN "\"macOS\""
    ELSE IF Contains(ua, "android") THEN "\"Android\""
    ELSE IF Contains(ua, "linux") THEN "\"Linux\""
    ELSE "\"Unknown\""

\* _build_client_hints
BuildClientHints(ua) ==
    ("user-agent" :> ua)
    @@ ("sec-ch-ua" :> BuildSecChUa(ua))
    @@ ("sec-ch-ua-mobile" :> DetectMobileFlag(ua))
    @@ ("sec-ch-ua-platform" :> DetectPlatformToken(ua))
    @@ ("sec-fetch-dest" :> "empty")
    @@ ("sec-fetch-mode" :> "cors")
    @@ ("sec-fetch-site" :> "same-site")

COMMON_HEADERS ==
    ("accept" :> "*/*")
    @@ ("accept-language" :> "zh-CN,zh;q=0.9")
    @@ ("origin" :> "https://www.apeaksoft.com")
    @@ ("priority" :> "u=1, i")
    @@ ("referer" :> "https://www.apeaksoft.com/")

FORM_CONTENT_TYPE == "application/x-www-form-urlencoded; charset=UTF-8"

\* _build_headers(content_type) with the user agent _get_user_agent gave:
\* headers.update(hints), then content-type set or popped.
BuildHeaders(content_type, ua) ==
    LET headers == BuildClientHints(ua) @@ COMMON_HEADERS
    IN  IF Truthy(content_type)
        THEN ("content-type" :> content_type) @@ headers
        ELSE [k \in DOMAIN headers \ {"content-type"} |-> headers[k]]

\* The content_type each gateway operation hands to _build_headers: the
\* default for send_trial_request, fetch_benefit_status and
\* fetch_remove_status, None for upload_remove_wm and fetch_wm_status.
GatewayOps == {"trial", "benefit", "upload", "wm_status", "remove_status"}
ContentTypeArg(op) ==
    CASE op = "trial" -> FORM_CONTENT_TYPE
      [] op = "benefit" -> FORM_CONTENT_TYPE
      [] op = "upload" -> PyNone
      [] op = "wm_status" -> PyNone
      [] op = "remove_status" -> FORM_CONTENT_TYPE

-----------------------------------------------------------------------------
(* core.py: the gateway calls *)

\* generate_e_id: mmh3.hash128 of the fingerprint, or of secrets.token_hex(16)
\* when no fingerprint (None or "") is given.
RandomSeeds == {"r1", "r2"}
Mmh3Hash128(fp) ==
    CASE fp = "r1" -> "e1"
      [] fp = "r2" -> "e2"
      [] fp = "fp1" -> "e3"
      [] fp = "fp2" -> "e4"
      [] OTHER -> "e0"
GenerateEId(fingerprint, rnd) ==
    Mmh3Hash128(IF Truthy(fingerprint) THEN fingerprint ELSE rnd)
EIds == { GenerateEId(PyNone, r) : r \in RandomSeeds }

NoCall ==
    [op |-> "none", token |-> PyNone, e_id |-> PyNone, outcome |-> "skipped",
     network |-> FALSE, acquired |-> FALSE, client |-> 0, exc |-> "none",
     ret |-> NoneBody, advisory |-> NoneAdvisory]

\* A call that acquires the client, posts, and (raise_for_status, json) either
\* returns the parsed body or raises.
Exchange(op, tok, eid, outcome, body, adv) ==
    [op |-> op, token |-> tok, e_id |-> eid, outcome |-> outcome,
     network |-> TRUE, acquired |-> TRUE, client |-> 0,
     exc |-> IF outcome = "ok" THEN "none" ELSE outcome,
     ret |-> IF outcome = "ok" THEN body ELSE NoneBody,
     advisory |-> IF outcome = "ok" THEN adv ELSE NoneAdvisory]

\* The safe wrappers' except clauses: httpx.HTTPStatusError, then Exception,
\* both logged and answered with None.
CaughtOnlyStatusErrors(c) ==
    IF c.exc \in {"none", "transport_error"} THEN c
    ELSE [c EXCEPT !.exc = "none", !.ret = NoneBody, !.advisory = NoneAdvisory]

Caught(c) ==
    IF c.exc = "none" THEN c
    ELSE [c EXCEPT !.exc = "none", !.ret = NoneBody, !.advisory = NoneAdvisory]

\* The early return of a status poll: nothing acquired, nothing sent.
Skipped(op, tok, eid) ==
    [op |-> op, token |-> tok, e_id |-> eid, outcome |-> "skipped",
     network |-> FALSE, acquired |-> FALSE, client |-> 0, exc |-> "none",
     ret |-> NoneBody, advisory |-> NoneAdvisory]

SendTrialRequest(outcome, adv) ==
    Exchange("trial", PyNone, PyNone, outcome, NoneBody, adv)

SendTrialRequestSafe(outcome, adv) == Caught(SendTrialRequest(outcome, adv))

\* e_id_final = e_id or generate_e_id(); e_id defaults to DEFAULT_E_ID = None.
FetchBenefitStatus(eid, rnd, outcome, adv) ==
    Exchange("benefit", PyNone, IF Truthy(eid) THEN eid ELSE GenerateEId(PyNone, rnd),
             outcome, NoneBody, adv)

FetchBenefitStatusSafe(eid, rnd, outcome, adv) ==
    Caught(FetchBenefitStatus(eid, rnd, outcome, adv))

\* data["e_id"] = e_id: the caller's e_id goes into the form as it is.
UploadRemoveWmOwnEId(eid, outcome, body) ==
    Exchange("upload", PyNone, GenerateEId(PyNone, "r1"), outcome, body, NoneAdvisory)

UploadRemoveWm(eid, outcome, body) ==
    Exchange("upload", PyNone, eid, outcome, body, NoneAdvisory)

UploadRemoveWmSafe(eid, outcome, body) ==
    Caught(UploadRemoveWm(eid, outcome, body))

FetchWmStatus(tok, eid, outcome, body) ==
    Exchange("wm_status", tok, eid, outcome, body, NoneAdvisory)

FetchWmStatusSafeIgnoresEId(tok, eid, outcome, body) ==
    IF ~Truthy(tok)
    THEN Skipped("wm_status", tok, eid)
    ELSE Caught(FetchWmStatus(tok, eid, outcome, body))

FetchWmStatusSafe(tok, eid, outcome, body) ==
    IF ~Truthy(tok) \/ ~Truthy(eid)
    THEN Skipped("wm_status", tok, eid)
    ELSE Caught(FetchWmStatus(tok, eid, outcome, body))

FetchRemoveStatus(tok, outcome, body) ==
    Exchange("remove_status", tok, PyNone, outcome, body, NoneAdvisory)

FetchRemoveStatusSafe(tok, outcome, body) ==
    IF ~Truthy(tok)
    THEN Skipped("remove_status", tok, PyNone)
    ELSE Caught(FetchRemoveStatus(tok, outcome, body))

-----------------------------------------------------------------------------
(* database.py: the call journal *)

Row(id, tok, eid, url, size, created, updated) ==
    [id |-> id, token |-> tok, e_id |-> eid, result_url |-> url,
     image_size_bytes |-> size, created_at |-> created, updated_at |-> updated]

\* insert_api_call: one INSERT; id is AUTOINCREMENT, created_at and updated_at
\* default to CURRENT_TIMESTAMP.  Gives the table and the new row's id.
InsertApiCall(j, size, tok, eid, url, ts) ==
    [journal |-> Append(j, Row(Len(j) + 1, tok, eid, url, size, ts, ts)),
     ret |-> Len(j) + 1]

\* update_result_url: UPDATE api_calls SET result_url = ?, updated_at =
\* CURRENT_TIMESTAMP WHERE token = ?; True when rowcount > 0.
UpdateResultUrlFirstRowOnly(j, tok, url, ts) ==
    LET hits == { i \in DOMAIN j : j[i].token = tok }
        first == IF hits = {} THEN 0 ELSE CHOOSE i \in hits : \A k \in hits : i <= k
    IN  [journal |-> [i \in DOMAIN j |->
                        IF i = first
                        THEN [j[i] EXCEPT !.result_url = url, !.updated_at = ts]
                        ELSE j[i]],
         ret |-> hits # {}]

UpdateResultUrlTouchesToken(j, tok, url, ts) ==
    [journal |-> [i \in DOMAIN j |->
                    IF j[i].token = tok
                    THEN [j[i] EXCEPT !.result_url = url, !.updated_at = ts,
                                      !.e_id = PyNone]
                    ELSE j[i]],
     ret |-> \E i \in DOMAIN j : j[i].token = tok]

UpdateResultUrl(j, tok, url, ts) ==
    [journal |-> [i \in DOMAIN j |->
                    IF j[i].token = tok
                    THEN [j[i] EXCEPT !.result_url = url, !.updated_at = ts]
                    ELSE j[i]],
     ret |-> \E i \in DOMAIN j : j[i].token = tok]

-----------------------------------------------------------------------------
(* main.py: what the handlers decide between two awaits *)

\* The texts of the responses (the source's are Chinese).
DETAIL_BAD_TYPE == "unsupported file type"
DETAIL_TOO_LARGE == "file too large"
DETAIL_OVER_SIZE_LIMIT == "image size over the benefit limit"
DETAIL_OVER_EDGE_LIMIT == "image edge over the benefit limit"
DETAIL_UPLOAD_FAILED == "remote upload failed"
DETAIL_UPSTREAM_ERROR == "remote service returned an error"
DETAIL_NO_TOKEN == "no task token"
DETAIL_WM_QUERY_FAILED == "watermark status query failed"
DETAIL_ERASE_FAILED == "image erase failed"
DETAIL_INTERNAL == "internal service error"
DETAIL_QUERY_FAILED == "remote query failed"
DETAIL_FRAMEWORK_500 == "Internal Server Error"
MESSAGE_SUBMITTED == "erase request submitted, processing"
UNKNOWN_ERROR == "unknown error"

NoResponse ==
    [status |-> 0, kind |-> "none", detail |-> PyNone, vendor_msg |-> PyNone,
     token |-> PyNone, content |-> NoneBody]

\* raise HTTPException(status_code, detail): detail is a fixed text, for two of
\* them followed by the vendor's message field.
HttpErrorLeaksBody(status, detail, msg) ==
    [status |-> status, kind |-> "error", detail |-> detail, vendor_msg |-> msg,
     token |-> PyNone, content |-> upstream_resp]

HttpError(status, detail, msg) ==
    [status |-> status, kind |-> "error", detail |-> detail, vendor_msg |-> msg,
     token |-> PyNone, content |-> NoneBody]

\* ImageEraseResponse(token=token, message=...)
EraseResponse(tok) ==
    [status |-> 200, kind |-> "erase_ok", detail |-> MESSAGE_SUBMITTED,
     vendor_msg |-> PyNone, token |-> tok, content |-> NoneBody]

\* JSONResponse(content=upstream_resp)
JsonResponse(body) ==
    [status |-> 200, kind |-> "passthrough", detail |-> PyNone,
     vendor_msg |-> PyNone, token |-> PyNone, content |-> body]

\* _validate_upload_file
ValidateUploadFile(content_type) ==
    Truthy(content_type) /\ content_type \in ALLOWED_IMAGE_TYPES

\* dict.get('message', default): the default only when the key is absent.
MessageOr(body, default) == IF body.message = PyNone THEN default ELSE body.message

\* not resp, for what a gateway call returned.
Falsy(body) == body.kind \in {"none", "empty"}

\* resp.get("token") or (resp.get("data") or {}).get("token")
\*                   or (resp.get("result") or {}).get("token")
ExtractTokenDataFirst(body) == Or3(body.data_token, body.token, body.result_token)

ExtractToken(body) == Or3(body.token, body.data_token, body.result_token)

\* The same three shapes for url.
ExtractUrl(body) == Or3(body.url, body.data_url, body.result_url)

\* _validate_against_benefits on a truthy benefit_status: "ok", the limit that
\* is exceeded, or "exception" for a body whose shape makes .get fail.
ValidateAgainstBenefits(img, b) ==
    IF b.kind = "malformed" THEN "exception"
    ELSE IF b.in_size_limit > 0 /\ img.size # 0 /\ img.size > b.in_size_limit
         THEN "size"
    ELSE IF img.width # 0 /\ img.height # 0 /\ b.in_edge_threshold > 0
            /\ (IF img.width > img.height THEN img.width ELSE img.height)
                 > b.in_edge_threshold
         THEN "edge"
    ELSE "ok"

\* Lines 273-302: from the upload's return to the token.  next is the await
\* the handler goes on to, or "done" with the error it raises.
AfterUploadSkipsStatus(c) ==
    IF c.exc # "none"
    THEN [next |-> "done", token |-> PyNone,
          response |-> HttpError(500, DETAIL_INTERNAL, c.exc)]
    ELSE IF Falsy(c.ret)
    THEN [next |-> "done", token |-> PyNone,
          response |-> HttpError(502, DETAIL_UPLOAD_FAILED, PyNone)]
    ELSE IF c.ret.kind = "nondict"
    THEN [next |-> "done", token |-> PyNone,
          response |-> HttpError(500, DETAIL_INTERNAL, "AttributeError")]
    ELSE IF ~Truthy(ExtractToken(c.ret))
    THEN [next |-> "done", token |-> ExtractToken(c.ret),
          response |-> HttpError(502, DETAIL_NO_TOKEN, PyNone)]
    ELSE [next |-> "wm_status", token |-> ExtractToken(c.ret),
          response |-> NoResponse]

AfterUploadDropsMessage(c) ==
    IF c.exc # "none"
    THEN [next |-> "done", token |-> PyNone,
          response |-> HttpError(500, DETAIL_INTERNAL, c.exc)]
    ELSE IF Falsy(c.ret)
    THEN [next |-> "done", token |-> PyNone,
          response |-> HttpError(502, DETAIL_UPLOAD_FAILED, PyNone)]
    ELSE IF c.ret.kind = "nondict"
    THEN [next |-> "done", token |-> PyNone,
          response |-> HttpError(500, DETAIL_INTERNAL, "AttributeError")]
    ELSE IF c.ret.status # "200"
    THEN [next |-> "done", token |-> PyNone,
          response |-> HttpError(502, DETAIL_UPSTREAM_ERROR, UNKNOWN_ERROR)]
    ELSE IF ~Truthy(ExtractToken(c.ret))
    THEN [next |-> "done", token |-> ExtractToken(c.ret),
          response |-> HttpError(502, DETAIL_NO_TOKEN, PyNone)]
    ELSE [next |-> "wm_status", token |-> ExtractToken(c.ret),
          response |-> NoResponse]

AfterUpload(c) ==
    IF c.exc # "none"
    THEN [next |-> "done", token |-> PyNone,
          response |-> HttpError(500, DETAIL_INTERNAL, c.exc)]
    ELSE IF Falsy(c.ret)
    THEN [next |-> "done", token |-> PyNone,
          response |-> HttpError(502, DETAIL_UPLOAD_FAILED, PyNone)]
    ELSE IF c.ret.kind = "nondict"
    THEN [next |-> "done", token |-> PyNone,
          response |-> HttpError(500, DETAIL_INTERNAL, "AttributeError")]
    ELSE IF c.ret.status # "200"
    THEN [next |-> "done", token |-> PyNone,
          response |-> HttpError(502, DETAIL_UPSTREAM_ERROR,
                                 MessageOr(c.ret, UNKNOWN_ERROR))]
    ELSE IF ~Truthy(ExtractToken(c.ret))
    THEN [next |-> "done", token |-> ExtractToken(c.ret),
          response |-> HttpError(502, DETAIL_NO_TOKEN, PyNone)]
    ELSE [next |-> "wm_status", token |-> ExtractToken(c.ret),
          response |-> NoResponse]

\* Lines 307-333: from the WM-status call's return to result_url.
AfterWmRequiresUrl(c) ==
    IF c.exc # "none"
    THEN [next |-> "done", result_url |-> PyNone,
          response |-> HttpError(500, DETAIL_INTERNAL, c.exc)]
    ELSE IF Falsy(c.ret)
    THEN [next |-> "done", result_url |-> PyNone,
          response |-> HttpError(502, DETAIL_WM_QUERY_FAILED, PyNone)]
    ELSE IF c.ret.kind = "nondict"
    THEN [next |-> "done", result_url |-> PyNone,
          response |-> HttpError(500, DETAIL_INTERNAL, "AttributeError")]
    ELSE IF c.ret.status # "200" \/ ~Truthy(ExtractUrl(c.ret))
    THEN [next |-> "done", result_url |-> PyNone,
          response |-> HttpError(502, DETAIL_ERASE_FAILED,
                                 MessageOr(c.ret, UNKNOWN_ERROR))]
    ELSE [next |-> "insert", result_url |-> ExtractUrl(c.ret),
          response |-> NoResponse]

AfterWmNoneGoesOn(c) ==
    IF c.exc # "none"
    THEN [next |-> "done", result_url |-> PyNone,
          response |-> HttpError(500, DETAIL_INTERNAL, c.exc)]
    ELSE IF c.ret.kind = "nondict"
    THEN [next |-> "done", result_url |-> PyNone,
          response |-> HttpError(500, DETAIL_INTERNAL, "AttributeError")]
    ELSE IF ~Falsy(c.ret) /\ c.ret.status # "200"
    THEN [next |-> "done", result_url |-> PyNone,
          response |-> HttpError(502, DETAIL_ERASE_FAILED,
                                 MessageOr(c.ret, UNKNOWN_ERROR))]
    ELSE [next |-> "insert", result_url |-> ExtractUrl(c.ret),
          response |-> NoResponse]

AfterWm(c) ==
    IF c.exc # "none"
    THEN [next |-> "done", result_url |-> PyNone,
          response |-> HttpError(500, DETAIL_INTERNAL, c.exc)]
    ELSE IF Falsy(c.ret)
    THEN [next |-> "done", result_url |-> PyNone,
          response |-> HttpError(502, DETAIL_WM_QUERY_FAILED, PyNone)]
    ELSE IF c.ret.kind = "nondict"
    THEN [next |-> "done", result_url |-> PyNone,
          response |-> HttpError(500, DETAIL_INTERNAL, "AttributeError")]
    ELSE IF c.ret.status # "200"
    THEN [next |-> "done", result_url |-> PyNone,
          response |-> HttpError(502, DETAIL_ERASE_FAILED,
                                 MessageOr(c.ret, UNKNOWN_ERROR))]
    ELSE [next |-> "insert", result_url |-> ExtractUrl(c.ret),
          response |-> NoResponse]

\* get_erase_status, lines 389-402: from the poll's return to result_url.  An
\* exception here is not caught by the handler: the framework answers 500.
AfterPoll(c) ==
    IF c.exc # "none"
    THEN [next |-> "done", result_url |-> PyNone,
          response |-> HttpError(500, DETAIL_FRAMEWORK_500, PyNone)]
    ELSE IF c.ret.kind = "none"
    THEN [next |-> "done", result_url |-> PyNone,
          response |-> HttpError(502, DETAIL_QUERY_FAILED, PyNone)]
    ELSE IF c.ret.kind = "nondict"
    THEN [next |-> "done", result_url |-> PyNone,
          response |-> HttpError(500, DETAIL_FRAMEWORK_500, PyNone)]
    ELSE IF Truthy(ExtractUrl(c.ret))
    THEN [next |-> "update", result_url |-> ExtractUrl(c.ret),
          response |-> NoResponse]
    ELSE [next |-> "done", result_url |-> ExtractUrl(c.ret),
          response |-> JsonResponse(c.ret)]

-----------------------------------------------------------------------------
(* Initial state *)

NoImage == [size |-> 0, width |-> 0, height |-> 0]
NoJournalCall ==
    [op |-> "none", token |-> PyNone, url |-> PyNone, ret |-> FALSE,
     repeated |-> FALSE]

NoHeaders == [op |-> "none", ua |-> <<>>, headers |-> <<>>]
NoExtraction ==
    [resp |-> NoneBody, token |-> PyNone, next |-> "none", response |-> NoResponse]

\* The gateway calls that can be in flight at once.
Operations == 1..MaxInFlight

Init ==
    /\ http_client = 0
    /\ closed = {}
    /\ nclients = 0
    /\ closing = 0
    /\ last = NoCall
    /\ journal = <<>>
    /\ now = 0
    /\ jlast = NoJournalCall
    /\ nreq = 0
    /\ handler = "none"
    /\ pc = "idle"
    /\ calls = <<>>
    /\ journal0 = <<>>
    /\ image = NoImage
    /\ current_eid = PyNone
    /\ payload_token = PyNone
    /\ upstream_resp = NoneBody
    /\ token = PyNone
    /\ wm_resp = NoneBody
    /\ result_url = PyNone
    /\ db_raised = FALSE
    /\ response = NoResponse
    /\ built = NoHeaders
    /\ derived = <<>>
    /\ extracted = NoExtraction
    /\ held = [p \in Operations |-> 0]

-----------------------------------------------------------------------------
(* main.py: erase_image, one action per await *)

ContentTypes == {PyNone, "image/png", "text/plain"}
FileSizes == {10, MAX_FILE_SIZE + 1}
Dimensions == {<<0, 0>>, <<4, 8>>}

\* A request comes in and the handler runs to its first await: the two files'
\* types are validated, then send_trial_request_safe is awaited.
EraseImage(img_type, mask_type) ==
    /\ pc \in {"idle", "done"}
    /\ nreq < MaxRequests
    /\ nreq' = nreq + 1
    /\ handler' = "erase"
    /\ calls' = <<>>
    /\ journal0' = journal
    /\ image' = NoImage
    /\ current_eid' = PyNone
    /\ payload_token' = PyNone
    /\ upstream_resp' = NoneBody
    /\ token' = PyNone
    /\ wm_resp' = NoneBody
    /\ result_url' = PyNone
    /\ db_raised' = FALSE
    /\ IF ValidateUploadFile(img_type) /\ ValidateUploadFile(mask_type)
       THEN pc' = "trial" /\ response' = NoResponse
       ELSE pc' = "done" /\ response' = HttpError(400, DETAIL_BAD_TYPE, PyNone)
    /\ UNCHANGED <<clientVars, last, journalVars>>
    /\ UNCHANGED sideVars

\* await send_trial_request_safe; then current_eid, the image's size and
\* dimensions, the size check and the signature, up to the next await.
TrialStep(outcome, adv, rnd, size, dims) ==
    /\ handler = "erase" /\ pc = "trial"
    /\ LET c == SendTrialRequestSafe(outcome, adv)
       IN  /\ last' = Made(c)
           /\ calls' = Append(calls, c.op)
           /\ Acquire(c)
           /\ IF c.exc # "none"
              THEN /\ pc' = "done"
                   /\ response' = HttpError(500, DETAIL_INTERNAL, c.exc)
                   /\ UNCHANGED <<current_eid, image>>
              ELSE /\ current_eid' = GenerateEId(PyNone, rnd)
                   /\ image' = [size |-> size, width |-> dims[1], height |-> dims[2]]
                   /\ IF size > MAX_FILE_SIZE
                      THEN /\ pc' = "done"
                           /\ response' = HttpError(413, DETAIL_TOO_LARGE, PyNone)
                      ELSE /\ pc' = "benefit"
                           /\ UNCHANGED response
    /\ UNCHANGED <<journalVars, nreq, handler, journal0, payload_token,
                   upstream_resp, token, wm_resp, result_url, db_raised>>
    /\ UNCHANGED sideVars

\* await fetch_benefit_status_safe(); a truthy answer is validated against.
BenefitStep(outcome, adv, rnd) ==
    /\ handler = "erase" /\ pc = "benefit"
    /\ LET c == FetchBenefitStatusSafe(PyNone, rnd, outcome, adv)
           verdict == IF c.advisory.kind \in {"none", "empty"} THEN "ok"
                      ELSE ValidateAgainstBenefits(image, c.advisory)
       IN  /\ last' = Made(c)
           /\ calls' = Append(calls, c.op)
           /\ Acquire(c)
           /\ IF c.exc # "none"
              THEN pc' = "done" /\ response' = HttpError(500, DETAIL_INTERNAL, c.exc)
              ELSE IF verdict = "exception"
              THEN pc' = "done"
                   /\ response' = HttpError(500, DETAIL_INTERNAL, "AttributeError")
              ELSE IF verdict = "size"
              THEN pc' = "done"
                   /\ response' = HttpError(400, DETAIL_OVER_SIZE_LIMIT, PyNone)
              ELSE IF verdict = "edge"
              THEN pc' = "done"
                   /\ response' = HttpError(400, DETAIL_OVER_EDGE_LIMIT, PyNone)
              ELSE pc' = "upload" /\ UNCHANGED response
    /\ UNCHANGED <<journalVars, nreq, handler, journal0, image, current_eid,
                   payload_token, upstream_resp, token, wm_resp, result_url,
                   db_raised>>
    /\ UNCHANGED sideVars

\* await upload_remove_wm_safe(..., e_id=current_eid); then the status check
\* and the token.
UploadStep(outcome, body) ==
    /\ handler = "erase" /\ pc = "upload"
    /\ LET c == UploadRemoveWmSafe(current_eid, outcome, body)
           d == AfterUpload(c)
       IN  /\ last' = Made(c)
           /\ calls' = Append(calls, c.op)
           /\ Acquire(c)
           /\ upstream_resp' = c.ret
           /\ token' = d.token
           /\ pc' = d.next
           /\ response' = d.response
    /\ UNCHANGED <<journalVars, nreq, handler, journal0, image, current_eid,
                   payload_token, wm_resp, result_url, db_raised>>
    /\ UNCHANGED sideVars

\* await fetch_wm_status_safe(token=token, e_id=current_eid); then the status
\* check and result_url.
WmStatusStep(outcome, body) ==
    /\ handler = "erase" /\ pc = "wm_status"
    /\ LET c == FetchWmStatusSafe(token, current_eid, outcome, body)
           d == AfterWm(c)
       IN  /\ last' = Made(c)
           /\ calls' = Append(calls, c.op)
           /\ Acquire(c)
           /\ wm_resp' = c.ret
           /\ result_url' = d.result_url
           /\ pc' = d.next
           /\ response' = d.response
    /\ UNCHANGED <<journalVars, nreq, handler, journal0, image, current_eid,
                   payload_token, upstream_resp, token>>
    /\ UNCHANGED db_raised
    /\ UNCHANGED sideVars

\* await insert_api_call(...) inside try/except Exception; then the response.
InsertStep(db_ok) ==
    /\ handler = "erase" /\ pc = "insert"
    /\ IF db_ok
       THEN /\ journal' = InsertApiCall(journal, image.size, token, current_eid,
                                        result_url, now).journal
            /\ now' = now + 1
            /\ db_raised' = FALSE
       ELSE /\ db_raised' = TRUE
            /\ UNCHANGED <<journal, now>>
    /\ pc' = "done"
    /\ response' = EraseResponse(token)
    /\ UNCHANGED <<clientVars, last, jlast, nreq, handler, calls, journal0, image,
                   current_eid, payload_token, upstream_resp, token, wm_resp,
                   result_url>>
    /\ UNCHANGED sideVars

-----------------------------------------------------------------------------
(* main.py: get_erase_status, one action per await *)

PayloadTokens == Tokens \cup {""}

\* A status request comes in; the handler runs to its first await.
GetEraseStatus(tok) ==
    /\ pc \in {"idle", "done"}
    /\ nreq < MaxRequests
    /\ nreq' = nreq + 1
    /\ handler' = "status"
    /\ pc' = "poll"
    /\ calls' = <<>>
    /\ journal0' = journal
    /\ image' = NoImage
    /\ current_eid' = PyNone
    /\ payload_token' = tok
    /\ upstream_resp' = NoneBody
    /\ token' = PyNone
    /\ wm_resp' = NoneBody
    /\ result_url' = PyNone
    /\ db_raised' = FALSE
    /\ response' = NoResponse
    /\ UNCHANGED <<clientVars, last, journalVars>>
    /\ UNCHANGED sideVars

\* await fetch_remove_status_safe(token=payload.token); then result_url.
PollStep(outcome, body) ==
    /\ handler = "status" /\ pc = "poll"
    /\ LET c == FetchRemoveStatusSafe(payload_token, outcome, body)
           d == AfterPoll(c)
       IN  /\ last' = Made(c)
           /\ calls' = Append(calls, c.op)
           /\ Acquire(c)
           /\ upstream_resp' = c.ret
           /\ result_url' = d.result_url
           /\ pc' = d.next
           /\ response' = d.response
    /\ UNCHANGED <<journalVars, nreq, handler, journal0, image, current_eid,
                   payload_token, token, wm_resp, db_raised>>
    /\ UNCHANGED sideVars

\* await update_result_url(payload.token, result_url) inside try/except
\* Exception; then JSONResponse(content=upstream_resp).
UpdateStepPropagates(db_ok) ==
    /\ handler = "status" /\ pc = "update"
    /\ IF db_ok
       THEN /\ journal' = UpdateResultUrl(journal, payload_token, result_url, now).journal
            /\ now' = now + 1
            /\ db_raised' = FALSE
            /\ response' = JsonResponse(upstream_resp)
       ELSE /\ db_raised' = TRUE
            /\ response' = HttpError(500, DETAIL_FRAMEWORK_500, PyNone)
            /\ UNCHANGED <<journal, now>>
    /\ pc' = "done"
    /\ UNCHANGED <<clientVars, last, jlast, nreq, handler, calls, journal0, image,
                   current_eid, payload_token, upstream_resp, token, wm_resp,
                   result_url>>
    /\ UNCHANGED sideVars

UpdateStep(db_ok) ==
    /\ handler = "status" /\ pc = "update"
    /\ IF db_ok
       THEN /\ journal' = UpdateResultUrl(journal, payload_token, result_url, now).journal
            /\ now' = now + 1
            /\ db_raised' = FALSE
       ELSE /\ db_raised' = TRUE
            /\ UNCHANGED <<journal, now>>
    /\ pc' = "done"
    /\ response' = JsonResponse(upstream_resp)
    /\ UNCHANGED <<clientVars, last, jlast, nreq, handler, calls, journal0, image,
                   current_eid, payload_token, upstream_resp, token, wm_resp,
                   result_url>>
    /\ UNCHANGED sideVars

Next ==
    \/ \E it \in ContentTypes, mt \in ContentTypes : EraseImage(it, mt)
    \/ \E x \in Exchanges(TrialBodies, NoneAdvisory), r \in RandomSeeds,
          s \in FileSizes, d \in Dimensions : TrialStep(x[1], x[2], r, s, d)
    \/ \E x \in Exchanges(BenefitBodies, NoneAdvisory), r \in RandomSeeds :
          BenefitStep(x[1], x[2], r)
    \/ \E x \in Exchanges(UploadBodies, NoneBody) : UploadStep(x[1], x[2])
    \/ \E x \in Exchanges(StatusBodies, NoneBody) : WmStatusStep(x[1], x[2])
    \/ \E ok \in BOOLEAN : InsertStep(ok)
    \/ \E t \in PayloadTokens : GetEraseStatus(t)
    \/ \E x \in Exchanges(StatusBodies, NoneBody) : PollStep(x[1], x[2])
    \/ \E ok \in BOOLEAN : UpdateStep(ok)

Spec == Init /\ [][Next]_vars

-----------------------------------------------------------------------------
(* GatewaySpec: the gateway's public calls, made directly *)

TokenArgs == {PyNone, "", "t1"}
EIdArgs == {PyNone, "", "e1"}

\* The model creates at most MaxClients clients.
CanAcquire == NeedsNewClient => nclients < MaxClients

GatewayCall(c) ==
    /\ c.acquired => CanAcquire
    /\ last' = Made(c)
    /\ Acquire(c)
    /\ UNCHANGED <<journalVars, requestVars>>
    /\ UNCHANGED sideVars

CallSendTrialRequestSafe(outcome, adv) ==
    GatewayCall(SendTrialRequestSafe(outcome, adv))

CallFetchBenefitStatusSafe(eid, rnd, outcome, adv) ==
    GatewayCall(FetchBenefitStatusSafe(eid, rnd, outcome, adv))

CallUploadRemoveWmSafe(eid, outcome, body) ==
    GatewayCall(UploadRemoveWmSafe(eid, outcome, body))

CallFetchWmStatusSafe(tok, eid, outcome, body) ==
    GatewayCall(FetchWmStatusSafe(tok, eid, outcome, body))

CallFetchRemoveStatusSafe(tok, outcome, body) ==
    GatewayCall(FetchRemoveStatusSafe(tok, outcome, body))

\* close_http_client up to its await: aclose marks the client closed before it
\* suspends.  With no open shared client the call returns at once.
CloseHttpClientStart ==
    /\ closing = 0
    /\ IF http_client # 0 /\ http_client \notin closed
       THEN closed' = closed \cup {http_client} /\ closing' = http_client
       ELSE UNCHANGED <<closed, closing>>
    /\ UNCHANGED <<http_client, nclients, last, journalVars, requestVars>>
    /\ UNCHANGED sideVars

\* close_http_client after its await: _http_client = None.
CloseHttpClientFinish ==
    /\ closing # 0
    /\ http_client' = 0
    /\ closing' = 0
    /\ UNCHANGED <<closed, nclients, last, journalVars, requestVars>>
    /\ UNCHANGED sideVars

GatewayNext ==
    \/ \E x \in Exchanges(TrialBodies, NoneAdvisory) :
          CallSendTrialRequestSafe(x[1], x[2])
    \/ \E e \in EIdArgs, r \in RandomSeeds, x \in Exchanges(BenefitBodies, NoneAdvisory) :
          CallFetchBenefitStatusSafe(e, r, x[1], x[2])
    \/ \E e \in EIds, x \in Exchanges(UploadBodies, NoneBody) :
          CallUploadRemoveWmSafe(e, x[1], x[2])
    \/ \E t \in TokenArgs, e \in EIdArgs, x \in Exchanges(StatusBodies, NoneBody) :
          CallFetchWmStatusSafe(t, e, x[1], x[2])
    \/ \E t \in TokenArgs, x \in Exchanges(StatusBodies, NoneBody) :
          CallFetchRemoveStatusSafe(t, x[1], x[2])
    \/ CloseHttpClientStart
    \/ CloseHttpClientFinish

GatewaySpec == Init /\ [][GatewayNext]_vars

-----------------------------------------------------------------------------
(* JournalSpec: the journal's two writing calls, made directly *)

JournalUrls == Urls \cup {PyNone}

\* A journal call as the log keeps it; repeated: the call before it was an
\* update_result_url with the same token and the same URL.
JournalCall(op, tok, url, ret) ==
    [op |-> op, token |-> tok, url |-> url, ret |-> ret,
     repeated |-> op = "update" /\ jlast.op = "update"
                  /\ jlast.token = tok /\ jlast.url = url]

CallInsertApiCall(size, tok, eid, url) ==
    /\ now < MaxJournalCalls
    /\ LET r == InsertApiCall(journal, size, tok, eid, url, now)
       IN  /\ journal' = r.journal
           /\ jlast' = JournalCall("insert", tok, url, TRUE)
    /\ now' = now + 1
    /\ UNCHANGED <<clientVars, last, requestVars>>
    /\ UNCHANGED sideVars

CallUpdateResultUrl(tok, url) ==
    /\ now < MaxJournalCalls
    /\ LET r == UpdateResultUrl(journal, tok, url, now)
       IN  /\ journal' = r.journal
           /\ jlast' = JournalCall("update", tok, url, r.ret)
    /\ now' = now + 1
    /\ UNCHANGED <<clientVars, last, requestVars>>
    /\ UNCHANGED sideVars

JournalNext ==
    \/ \E t \in Tokens, e \in EIds, u \in JournalUrls : CallInsertApiCall(10, t, e, u)
    \/ \E t \in Tokens, u \in Urls : CallUpdateResultUrl(t, u)

JournalSpec == Init /\ [][JournalNext]_vars

-----------------------------------------------------------------------------
(* SynthSpec: the header builder and generate_e_id, called directly *)

\* The first statement of a gateway operation: headers = _build_headers(...),
\* with whatever _get_user_agent gives for this call.
BuildHeadersFor(op, random, raised) ==
    /\ LET ua == GetUserAgent(random, raised)
       IN  built' = [op |-> op, ua |-> ua,
                     headers |-> BuildHeaders(ContentTypeArg(op), ua)]
    /\ UNCHANGED <<clientVars, last, journalVars, requestVars, derived,
                   extracted, held>>

Fingerprints == {PyNone, "", "fp1", "fp2"}

\* generate_e_id(fingerprint); rnd is what secrets.token_hex(16) would give.
\* The two latest calls are kept.
CallGenerateEId(fingerprint, rnd) ==
    /\ LET c == [fingerprint |-> fingerprint, ret |-> GenerateEId(fingerprint, rnd)]
       IN  derived' = IF Len(derived) < 2 THEN Append(derived, c)
                      ELSE <<derived[2], c>>
    /\ UNCHANGED <<clientVars, last, journalVars, requestVars, built,
                   extracted, held>>

SynthNext ==
    \/ \E op \in GatewayOps, u \in UserAgents, raised \in BOOLEAN :
          BuildHeadersFor(op, u, raised)
    \/ \E f \in Fingerprints, r \in RandomSeeds : CallGenerateEId(f, r)

SynthSpec == Init /\ [][SynthNext]_vars

-----------------------------------------------------------------------------
(* UploadSpec: erase_image from the upload's return to the token, for every
   shape of the vendor's body *)

TokenValues == {PyNone, "", "t1", "t2", "abc123"}

\* The bodies of UploadBodies, and a "200" body with every combination of
\* token, data.token and result.token.
TokenBodies ==
    UploadBodies
    \cup { Body("json", "200", PyNone, a, b, c, PyNone, PyNone, PyNone) :
             a \in TokenValues, b \in TokenValues, c \in TokenValues }

\* upload_remove_wm_safe returns and the handler runs lines 273-302.
UploadReturns(eid, outcome, body) ==
    /\ LET c == UploadRemoveWmSafe(eid, outcome, body)
           d == AfterUpload(c)
       IN  extracted' = [resp |-> c.ret, token |-> d.token, next |-> d.next,
                         response |-> d.response]
    /\ UNCHANGED <<clientVars, last, journalVars, requestVars, built, derived,
                   held>>

UploadNext ==
    \E e \in EIds, x \in Exchanges(TokenBodies, NoneBody) : UploadReturns(e, x[1], x[2])

UploadSpec == Init /\ [][UploadNext]_vars

-----------------------------------------------------------------------------
(* ClientSpec: gateway operations in flight while close_http_client runs *)

\* Operation p runs up to its await of client.post: client = await
\* get_http_client(), which does not suspend.
BeginOperation(p) ==
    /\ held[p] = 0
    /\ CanAcquire
    /\ LET g == GetHttpClient(http_client, closed, nclients)
       IN  /\ http_client' = g.http_client
           /\ nclients' = g.nclients
           /\ held' = [held EXCEPT ![p] = g.http_client]
    /\ UNCHANGED <<closed, closing, last, journalVars, requestVars, built,
                   derived, extracted>>

\* client.post returns or raises: the operation is over and drops its client.
EndOperation(p) ==
    /\ held[p] # 0
    /\ held' = [held EXCEPT ![p] = 0]
    /\ UNCHANGED <<clientVars, last, journalVars, requestVars, built, derived,
                   extracted>>

ClientNext ==
    \/ \E p \in Operations : BeginOperation(p)
    \/ \E p \in Operations : EndOperation(p)
    \/ CloseHttpClientStart
    \/ CloseHttpClientFinish

ClientSpec == Init /\ [][ClientNext]_vars

-----------------------------------------------------------------------------
(* Claims *)

EraseCalls == <<"trial", "benefit", "upload", "wm_status">>
IsPrefix(p, q) == Len(p) <= Len(q) /\ \A i \in 1..Len(p) : p[i] = q[i]
Called(op) == \E i \in 1..Len(calls) : calls[i] = op
ErasePcs == <<"trial", "benefit", "upload", "wm_status", "insert">>

\* C1: an erase task goes SUBMITTED -> UPLOADED -> STATUS_QUERIED -> COMPLETED
\* or FAILED and skips nothing: erase_image makes its gateway calls in the
\* order trial, benefit, upload, WM-status; it is about to make, or has made,
\* the WM-status call only when the upload returned a body with status "200"
\* and a non-empty token was extracted; it answers with success only after a
\* WM-status call that returned status "200"; and an upload answer "200" with
\* no token ends the attempt with a 502 and no WM-status call.
C1_StateMachine ==
    handler = "erase" =>
        /\ IsPrefix(calls, EraseCalls)
        /\ \A i \in 1..Len(ErasePcs) : pc = ErasePcs[i] => Len(calls) = i - 1
        /\ (pc = "wm_status" \/ Called("wm_status")) =>
              /\ upstream_resp.kind = "json"
              /\ upstream_resp.status = "200"
              /\ token \in Tokens
              /\ token \in {upstream_resp.token, upstream_resp.data_token,
                            upstream_resp.result_token}
        /\ response.kind = "erase_ok" =>
              /\ pc = "done"
              /\ calls = EraseCalls
              /\ wm_resp.kind = "json" /\ wm_resp.status = "200"
              /\ response.token = token
        /\ (pc = "done" /\ Called("upload") /\ upstream_resp.kind = "json"
              /\ upstream_resp.status = "200"
              /\ upstream_resp.token \notin Tokens
              /\ upstream_resp.data_token \notin Tokens
              /\ upstream_resp.result_token \notin Tokens) =>
              /\ response.kind = "error" /\ response.status = 502
              /\ response.detail = DETAIL_NO_TOKEN
              /\ ~Called("wm_status")

\* C1 witness: an attempt that went through every state and answered success.
C1_Witness ==
    /\ handler = "erase" /\ pc = "done"
    /\ calls = EraseCalls
    /\ response.kind = "erase_ok" /\ response.token = "t2"

\* C2: when the upload call, the WM-status call or the remove-status call
\* hands back None, the handler ends the request with a 502 error that
\* carries no token and no status body, and the journal is as it was when
\* the request came in.
C2_AbsentIsHardFailure ==
    LET hard == /\ pc = "done"
                /\ response.kind = "error" /\ response.status = 502
                /\ response.token = PyNone
                /\ response.content = NoneBody
                /\ journal = journal0
    IN  /\ (handler = "erase" /\ Len(calls) = 3 /\ upstream_resp.kind = "none") => hard
        /\ (handler = "erase" /\ Len(calls) = 4 /\ wm_resp.kind = "none") => hard
        /\ (handler = "status" /\ Len(calls) = 1 /\ upstream_resp.kind = "none") => hard

\* C2 witness: the WM-status call of an attempt came back None after a
\* journal row already existed.
C2_Witness ==
    /\ handler = "erase" /\ Len(calls) = 4
    /\ wm_resp.kind = "none" /\ last.outcome = "http_status_error"
    /\ response.status = 502
    /\ Len(journal) = 1

\* C3: a failed advisory call blocks nothing: for every way the trial or the
\* benefit exchange fails, the safe call hands back None and raises nothing;
\* after a failed trial call the handler goes on to the benefit call unless
\* the file is too large (413), and after a failed benefit call the next
\* thing it does is the upload call, with no response sent.
C3_AdvisoryNeverBlocks ==
    (handler = "erase" /\ Len(calls) \in {1, 2} /\ last.op = calls[Len(calls)]
        /\ last.outcome # "ok") =>
        /\ last.op \in {"trial", "benefit"}
        /\ last.exc = "none"
        /\ last.advisory = NoneAdvisory
        /\ last.op = "trial" =>
              \/ pc = "benefit" /\ response = NoResponse
              \/ pc = "done" /\ response.status = 413 /\ image.size > MAX_FILE_SIZE
        /\ last.op = "benefit" => pc = "upload" /\ response = NoResponse

\* C3 witness: the benefit call failed in transport and the handler stands
\* before the upload.
C3_Witness ==
    /\ handler = "erase" /\ pc = "upload"
    /\ calls = <<"trial", "benefit">>
    /\ last.op = "benefit" /\ last.outcome = "transport_error"

\* C4: when the upload returns a JSON body whose status is not "200", the
\* attempt ends with a 502 whose detail is the upstream-error text followed
\* by the body's message field, or by the default text when the body has no
\* message; no token is extracted, no WM-status call is made and the journal
\* is as it was.
C4_UploadRefused ==
    (handler = "erase" /\ Called("upload") /\ upstream_resp.kind = "json"
        /\ upstream_resp.status # "200") =>
        /\ pc = "done"
        /\ response.kind = "error" /\ response.status = 502
        /\ response.detail = DETAIL_UPSTREAM_ERROR
        /\ upstream_resp.message = PyNone => response.vendor_msg = UNKNOWN_ERROR
        /\ upstream_resp.message # PyNone => response.vendor_msg = upstream_resp.message
        /\ token = PyNone
        /\ ~Called("wm_status")
        /\ journal = journal0

\* C4 witness: the vendor refused with status "403" and "quota exceeded", in
\* a body that carried a token all the same.
C4_Witness ==
    /\ handler = "erase" /\ pc = "done"
    /\ upstream_resp.status = "403" /\ upstream_resp.message = VendorMessage
    /\ upstream_resp.token = "t1"
    /\ response.vendor_msg = VendorMessage

\* C5: fetch_wm_status_safe called with a missing or empty token or e_id, and
\* fetch_remove_status_safe called with a missing or empty token, return None
\* with no network call made and no HTTP client acquired.
C5_EmptyTokenShortCircuits ==
    ( \/ last.op = "wm_status" /\ (last.token \in {PyNone, ""} \/ last.e_id \in {PyNone, ""})
      \/ last.op = "remove_status" /\ last.token \in {PyNone, ""} ) =>
        /\ last.ret = NoneBody
        /\ last.exc = "none"
        /\ ~last.network
        /\ ~last.acquired
        /\ last.client = 0

\* C5 witness: a WM-status poll with a token and an empty e_id, made while no
\* client existed yet, and none exists after it.
C5_Witness ==
    /\ last.op = "wm_status" /\ last.token = "t1" /\ last.e_id = ""
    /\ last.ret = NoneBody
    /\ nclients = 0

\* The fixed texts a handler's error can carry.
NormalizedDetails ==
    {DETAIL_BAD_TYPE, DETAIL_TOO_LARGE, DETAIL_OVER_SIZE_LIMIT, DETAIL_OVER_EDGE_LIMIT,
     DETAIL_UPLOAD_FAILED, DETAIL_UPSTREAM_ERROR, DETAIL_NO_TOKEN,
     DETAIL_WM_QUERY_FAILED, DETAIL_ERASE_FAILED, DETAIL_INTERNAL,
     DETAIL_QUERY_FAILED, DETAIL_FRAMEWORK_500}

\* C6 as claimed: no response of erase_image or get_erase_status, success or
\* failure, has the vendor's JSON body as its body.
C6_NeverRawPayload == response.content = NoneBody

\* C6 as amended: every response of erase_image and every error response of
\* get_erase_status is a normalized message (a fixed text, with the vendor's
\* message field only for a refused upload or a failed erase, or the token
\* with a fixed text), never the vendor's body; the success response of
\* get_erase_status is the remove-status body itself, passed through.
C6_NormalizedExceptStatusPassthrough ==
    /\ (response.kind = "error" \/ handler = "erase") => response.content = NoneBody
    /\ response.kind = "error" =>
          /\ response.detail \in NormalizedDetails
          /\ response.vendor_msg \in {VendorMessage, UNKNOWN_ERROR} =>
                response.detail \in {DETAIL_UPSTREAM_ERROR, DETAIL_ERASE_FAILED}
    /\ response.kind = "erase_ok" =>
          response.detail = MESSAGE_SUBMITTED /\ response.token = token
    /\ response.kind = "passthrough" =>
          /\ handler = "status"
          /\ response.content = upstream_resp
          /\ upstream_resp.kind \in {"json", "empty"}
    /\ (handler = "status" /\ pc = "done" /\ upstream_resp.kind \in {"json", "empty"}) =>
          response.kind = "passthrough"

\* C6 witness: a status request answered with the vendor's body, message and
\* all.
C6_Witness ==
    /\ handler = "status" /\ pc = "done"
    /\ response.kind = "passthrough"
    /\ response.content.kind = "json"
    /\ response.content.message = VendorMessage

\* The rows of j0 are still in j, each changed in result_url and updated_at
\* at most.
KeepsRows(j0, j) ==
    /\ Len(j0) <= Len(j)
    /\ \A i \in 1..Len(j0) :
          j[i] = [j0[i] EXCEPT !.result_url = j[i].result_url,
                               !.updated_at = j[i].updated_at]

\* C7 as claimed: every attempt erase_image handles, whatever its outcome,
\* leaves exactly one new api_calls row.
C7_OneRowPerAttempt ==
    (handler = "erase" /\ pc = "done") => Len(journal) = Len(journal0) + 1

\* C7 as amended: an attempt leaves exactly one new row when it reaches its
\* success response and insert_api_call did not raise, and no row otherwise
\* (every failed attempt, and a success whose insert raised); a status request
\* adds no row; rows are never deleted, and a row, once inserted, changes only
\* in result_url and updated_at.
C7_AppendOnlyJournal ==
    /\ KeepsRows(journal0, journal)
    /\ \A i \in 1..Len(journal) : journal[i].id = i
    /\ handler = "status" => Len(journal) = Len(journal0)
    /\ handler = "erase" =>
          IF pc = "done" /\ response.kind = "erase_ok" /\ ~db_raised
          THEN /\ Len(journal) = Len(journal0) + 1
               /\ journal[Len(journal)].token = token
               /\ journal[Len(journal)].e_id = current_eid
               /\ journal[Len(journal)].image_size_bytes = image.size
               /\ \A i \in 1..Len(journal0) : journal[i] = journal0[i]
          ELSE journal = journal0

\* C7 witness: a status poll attached a URL to the row an earlier attempt
\* inserted without one.
C7_Witness ==
    /\ handler = "status" /\ pc = "done"
    /\ Len(journal) = 1
    /\ journal0[1].result_url = PyNone
    /\ journal[1].result_url = "u2"
    /\ journal[1].updated_at > journal[1].created_at

\* C8: once a journal row's result_url holds a URL, no later status poll
\* changes it to a different value.
C8_ResultUrlSetOnce ==
    handler = "status" =>
        \A i \in 1..Len(journal0) :
            Truthy(journal0[i].result_url) =>
                journal[i].result_url = journal0[i].result_url

\* The rows of j that carry token tok.
RowsOf(j, tok) == { i \in 1..Len(j) : j[i].token = tok }

\* C9 as claimed: after two update_result_url calls in a row with the same
\* token and the same URL, whatever the journal held, exactly one row has
\* result_url set to that URL and the second call returned True.
C9_ExactlyOneRowAndTrue ==
    jlast.repeated =>
        /\ jlast.ret = TRUE
        /\ Cardinality({ i \in 1..Len(journal) : journal[i].result_url = jlast.url }) = 1

\* C9 as amended: the second of two update_result_url calls in a row with
\* the same token and URL changes nothing but updated_at and returns what
\* the first returned: True when at least one row carries the token, False
\* when none does; after it every row carrying the token has result_url set
\* to the URL and so has exactly one row when exactly one carries the token.
C9_RepeatedUpdate ==
    [][ (jlast'.repeated /\ now' # now) =>
          /\ jlast'.ret = jlast.ret
          /\ jlast'.ret = (RowsOf(journal', jlast'.token) # {})
          /\ Len(journal') = Len(journal)
          /\ \A i \in 1..Len(journal) :
                /\ journal'[i] = [journal[i] EXCEPT !.updated_at = journal'[i].updated_at]
                /\ journal'[i].token = jlast'.token => journal'[i].result_url = jlast'.url
                /\ journal'[i].token # jlast'.token => journal'[i] = journal[i]
          /\ Cardinality(RowsOf(journal', jlast'.token)) = 1 =>
                Cardinality({ i \in RowsOf(journal', jlast'.token) :
                                journal'[i].result_url = jlast'.url }) = 1
      ]_vars

\* C9 witness: the same update made twice on a journal in which two rows
\* carry the token.
C9_Witness ==
    /\ jlast.repeated /\ jlast.ret
    /\ Cardinality(RowsOf(journal, jlast.token)) = 2
    /\ \A i \in RowsOf(journal, jlast.token) : journal[i].result_url = jlast.url

\* C10 as claimed: erase_image answers with success only when the WM-status
\* body yielded a non-empty result URL.
C10_SuccessOnlyWithUrl ==
    response.kind = "erase_ok" => Truthy(result_url)

\* C10 as amended: erase_image answers with success exactly when the
\* WM-status body has status "200", whether or not that body yields a result
\* URL; the row it inserts stores the URL found at url, data.url or
\* result.url, or NULL when there is none; every other finished attempt ends
\* with an error.
C10_SuccessOnWmStatus200 ==
    (handler = "erase" /\ pc = "done") =>
        /\ response.kind = "erase_ok" <=>
              (calls = EraseCalls /\ wm_resp.kind = "json" /\ wm_resp.status = "200")
        /\ response.kind \in {"erase_ok", "error"}
        /\ response.kind = "erase_ok" =>
              /\ result_url \in {wm_resp.url, wm_resp.data_url, wm_resp.result_url}
              /\ (\E u \in {wm_resp.url, wm_resp.data_url, wm_resp.result_url} : u \in Urls)
                    => result_url \in Urls
              /\ ~db_raised => journal[Len(journal)].result_url = result_url

\* C10 witness: a success whose WM-status body had no URL, journalled with a
\* NULL result_url.
C10_Witness ==
    /\ handler = "erase" /\ pc = "done"
    /\ response.kind = "erase_ok"
    /\ result_url = PyNone
    /\ ~db_raised
    /\ journal[Len(journal)].result_url = PyNone

\* The names of the headers _build_client_hints gives.
ClientHintNames ==
    {"user-agent", "sec-ch-ua", "sec-ch-ua-mobile", "sec-ch-ua-platform",
     "sec-fetch-dest", "sec-fetch-mode", "sec-fetch-site"}

\* C11: for every gateway operation, the headers _build_headers gives it are
\* the common static headers and the synthesized identity headers, with a
\* content-type header exactly when the operation is not the multipart
\* upload: present for trial, benefit-status, WM-status and remove-status,
\* absent for upload only.
C11_ContentTypeUnlessUpload ==
    built.op # "none" =>
        /\ DOMAIN built.headers =
              DOMAIN COMMON_HEADERS \cup ClientHintNames
              \cup (IF built.op = "upload" THEN {} ELSE {"content-type"})
        /\ \A k \in DOMAIN COMMON_HEADERS : built.headers[k] = COMMON_HEADERS[k]
        /\ built.headers["user-agent"] = built.ua
        /\ built.headers["sec-fetch-mode"] = "cors"

\* C12: in every set of headers built, the platform token is one of
\* "Windows", "macOS", "Android", "Linux", "Unknown" (as a quoted string) and
\* the mobile flag one of ?0, ?1; both are decided by the very user-agent
\* string sent in the user-agent header: the first of Windows, macOS (mac os x
\* or macintosh), Android, Linux that occurs in it, case ignored, else
\* Unknown; ?1 exactly when it contains "mobile".
C12_HintsFromSameUserAgent ==
    built.op # "none" =>
        LET h == built.headers
            ua == h["user-agent"]
            platform == h["sec-ch-ua-platform"]
            win == Contains(ua, "windows")
            mac == Contains(ua, "mac os x") \/ Contains(ua, "macintosh")
            android == Contains(ua, "android")
            linux == Contains(ua, "linux")
        IN  /\ ua = built.ua
            /\ platform \in {"\"Windows\"", "\"macOS\"", "\"Android\"", "\"Linux\"",
                             "\"Unknown\""}
            /\ h["sec-ch-ua-mobile"] \in {"?0", "?1"}
            /\ platform = "\"Windows\"" <=> win
            /\ platform = "\"macOS\"" <=> (~win /\ mac)
            /\ platform = "\"Android\"" <=> (~win /\ ~mac /\ android)
            /\ platform = "\"Linux\"" <=> (~win /\ ~mac /\ ~android /\ linux)
            /\ platform = "\"Unknown\"" <=> (~win /\ ~mac /\ ~android /\ ~linux)
            /\ h["sec-ch-ua-mobile"] = "?1" <=> Contains(ua, "mobile")

\* C12 witness: headers built for an Android phone, whose user agent names
\* Linux before Android.
C12_Witness ==
    /\ built.op = "remove_status"
    /\ Contains(built.ua, "linux") /\ Contains(built.ua, "android")
    /\ built.headers["sec-ch-ua-platform"] = "\"Android\""
    /\ built.headers["sec-ch-ua-mobile"] = "?1"

\* C13: generate_e_id is deterministic in its input: two calls given the same
\* fingerprint string, the empty string included, return the same e_id; only
\* a call given no fingerprint draws a random seed.
C13_DeterministicForSuppliedFingerprint ==
    \A i \in DOMAIN derived, j \in DOMAIN derived :
        (derived[i].fingerprint # PyNone
            /\ derived[i].fingerprint = derived[j].fingerprint) =>
            derived[i].ret = derived[j].ret

\* C14: the token is looked for at token, then data.token, then result.token
\* of the upload body, and the first value that is neither missing nor empty
\* wins: a top-level "abc123" is the token; a missing or empty value at one
\* level lets the next level decide; the handler then goes on to the
\* WM-status call; when all three are missing or empty the attempt ends with
\* a 502 and the no-token text.
C14_FirstNonEmptyTokenWins ==
    LET b == extracted.resp
        IsSet(v) == v # PyNone /\ v # ""
    IN  (extracted.next # "none" /\ b.kind = "json" /\ b.status = "200") =>
            /\ b.token = "abc123" => extracted.token = "abc123"
            /\ IsSet(b.token) => extracted.token = b.token
            /\ (~IsSet(b.token) /\ IsSet(b.data_token)) =>
                  extracted.token = b.data_token
            /\ (~IsSet(b.token) /\ ~IsSet(b.data_token) /\ IsSet(b.result_token)) =>
                  extracted.token = b.result_token
            /\ (IsSet(b.token) \/ IsSet(b.data_token) \/ IsSet(b.result_token)) =>
                  extracted.next = "wm_status" /\ extracted.response = NoResponse
            /\ (~IsSet(b.token) /\ ~IsSet(b.data_token) /\ ~IsSet(b.result_token)) =>
                  /\ extracted.next = "done"
                  /\ extracted.response.kind = "error"
                  /\ extracted.response.status = 502
                  /\ extracted.response.detail = DETAIL_NO_TOKEN

\* C14 witness: an empty top-level token and a data.token, with another
\* token at result.token: data.token is taken.
C14_Witness ==
    /\ extracted.resp.token = "" /\ extracted.resp.data_token = "abc123"
    /\ extracted.resp.result_token = "t1"
    /\ extracted.token = "abc123"
    /\ extracted.next = "wm_status"

\* C15: whatever get_http_client and close_http_client calls came before,
\* the client get_http_client returns is the shared one and is open at the
\* moment of the return; it is a new client exactly when the shared one was
\* absent or closed, and the shared client unchanged otherwise.
C15_LazyClient ==
    [][ \A p \in Operations :
          (held[p] = 0 /\ held'[p] # 0) =>
              /\ held'[p] = http_client'
              /\ held'[p] \notin closed'
              /\ IF http_client = 0 \/ http_client \in closed
                 THEN held'[p] \notin 0..nclients /\ nclients' = nclients + 1
                 ELSE held'[p] = http_client /\ nclients' = nclients
      ]_vars

\* C15 witness: the first client was closed, and an operation was handed a
\* second one, now the shared client.
C15_Witness ==
    /\ 1 \in closed
    /\ http_client = 2
    /\ \E p \in Operations : held[p] = 2

\* C16: however a close_http_client call interleaves with get_http_client
\* calls, it resets _http_client to None only when _http_client is the
\* client it closed, never when it is a newer, still open client, and no
\* gateway operation in flight holds a client that has been closed.
C16_CloseIsSafe ==
    [][ /\ (http_client # 0 /\ http_client' = 0) => http_client \in closed
        /\ \A p \in Operations : held'[p] # 0 => held'[p] \notin closed'
      ]_vars

\* C17: one erase_image request uses one e_id throughout: a request starts
\* with none, generate_e_id sets it once, when the trial call has returned,
\* and it never changes after; the e_id the upload call and the WM-status
\* call are given and the e_id of the row the request inserts are that one
\* value.
C17_OneEIdPerAttempt ==
    [][ /\ (handler' = "erase" /\ Len(calls') \in {3, 4}) =>
              /\ last'.op = calls'[Len(calls')]
              /\ last'.e_id = current_eid'
              /\ current_eid' \in EIds
        /\ Len(journal') = Len(journal) + 1 =>
              /\ handler' = "erase"
              /\ journal'[Len(journal')].e_id = current_eid'
              /\ current_eid' = current_eid
        /\ nreq' # nreq => current_eid' = PyNone
        /\ current_eid' # current_eid =>
              \/ nreq' # nreq
              \/ /\ handler = "erase" /\ pc = "trial"
                 /\ current_eid = PyNone /\ current_eid' \in EIds
      ]_vars

\* C17 witness: two attempts, each with an e_id of its own, the second one's
\* sent with its WM-status call and stored in its row.
C17_Witness ==
    /\ handler = "erase" /\ pc = "done"
    /\ Len(journal) = 2
    /\ journal[1].e_id # journal[2].e_id
    /\ journal[2].e_id = current_eid
    /\ last.op = "wm_status" /\ last.e_id = current_eid

\* C18: a journal failure does not show in the response: when
\* insert_api_call raised, erase_image answers 200 with the token and the
\* submitted text; when update_result_url raised, or found no row for the
\* token, get_erase_status answers 200 with the remove-status body.
C18_JournalFailureInvisible ==
    /\ (handler = "erase" /\ pc = "done" /\ db_raised) =>
          /\ response = EraseResponse(token)
          /\ response.status = 200
          /\ response.token \in Tokens
    /\ (handler = "status" /\ pc = "done" /\ Truthy(result_url)
          /\ (db_raised \/ RowsOf(journal0, payload_token) = {})) =>
          /\ response.kind = "passthrough"
          /\ response.status = 200
          /\ response.content = upstream_resp
          /\ upstream_resp.kind = "json"

\* C18 witness: the update of a status request raised and the request was
\* answered with the vendor's body all the same.
C18_Witness ==
    /\ handler = "status" /\ pc = "done"
    /\ db_raised
    /\ response.kind = "passthrough"
    /\ response.content.url = "u1"

====
